---- MODULE Spec2Model ----
(***************************************************************************)
(* A model of broot's verb engine (src/src/verbs.rs): argument validation, *)
(* the replacement map, path resolution and `..` normalisation, template   *)
(* expansion in token and shell mode, and the dispatcher to_cmd_result.    *)
(*                                                                         *)
(* A Rust String is a sequence of one-character strings:                   *)
(*   "/a/.."  is  <<"/", "a", "/", ".", ".">>.                             *)
(* An Option is either None or the value itself.                           *)
(***************************************************************************)
EXTENDS Integers, Sequences, FiniteSets, TLC

VARIABLES
    n_pc,       \* normalisation run: "start", "once" (normalised), "twice"
    n_in,       \* the path handed to normalize_path
    n_out,      \* normalize_path(n_in)
    n_again,    \* normalize_path(n_out)
    cur_verb,   \* the verb the invocation typed has matched
    cur_file,   \* the selected path
    cur_is_dir, \* whether the selected path is a directory
    cur_args,   \* the argument text of the invocation, an Option
    call,       \* the call into the verb engine being handled, "none" if idle
    out,        \* what that call returned (the dispatcher: see result)
    result,     \* the CmdResult of the last dispatch, tag "none" before it
    export_file,\* the content of the export file
    app,        \* "running", or how the application ended
    home_dir,   \* the home directory UserDirs finds, an Option
    launch      \* the launch context: which export paths are configured

nvars == <<n_pc, n_in, n_out, n_again>>

\* what an engine call reads and never writes
inputs == <<cur_verb, cur_file, cur_is_dir, cur_args, home_dir, launch>>

evars == <<inputs, call, out, result, export_file, app>>

vars == <<n_pc, n_in, n_out, n_again, cur_verb, cur_file, cur_is_dir, cur_args,
          call, out, result, export_file, app, home_dir, launch>>

(***************************************************************************)
(* Strings                                                                 *)
(***************************************************************************)
SeqsUpTo(S, n) == UNION {[1..k -> S] : k \in 0..n}

Drop(s, n) == SubSeq(s, n + 1, Len(s))

Take(s, n) == SubSeq(s, 1, n)

\* s[i..] starts with the characters of pre
StartsWithAt(s, i, pre) ==
    /\ i + Len(pre) - 1 <= Len(s)
    /\ \A k \in 1..Len(pre) : s[i + k - 1] = pre[k]

StartsWith(s, pre) == StartsWithAt(s, 1, pre)

RECURSIVE Flatten(_)
Flatten(ss) == IF ss = <<>> THEN <<>> ELSE Head(ss) \o Flatten(Tail(ss))

RECURSIVE JoinWith(_, _)
JoinWith(ss, sep) ==
    IF ss = <<>> THEN <<>>
    ELSE IF Len(ss) = 1 THEN ss[1]
    ELSE ss[1] \o sep \o JoinWith(Tail(ss), sep)

(***************************************************************************)
(* normalize_path: the regex /[^/.\\]+/\.\. is replaced by "" (leftmost    *)
(* match only) until the length stops changing.                            *)
(***************************************************************************)
\* a plausible bug: the class written [^/.], the backslash forgotten
SegExcludedNoBackslash == {"/", "."}

\* the characters the segment class [^/.\\] excludes
SegExcluded == {"/", ".", "\\"}

\* the length of the longest run of characters outside excl starting at s[i]
RECURSIVE RunLen(_, _, _)
RunLen(s, i, excl) ==
    IF i > Len(s) \/ s[i] \in excl THEN 0 ELSE 1 + RunLen(s, i + 1, excl)

\* the length of the match of /[^excl]+/\.\. that starts at s[i], 0 if none
\* (the class excludes "/", so the greedy run is the only candidate)
DotDotMatchLen(s, i, excl) ==
    LET n == RunLen(s, i + 1, excl) IN
    IF /\ i <= Len(s)
       /\ s[i] = "/"
       /\ n >= 1
       /\ StartsWithAt(s, i + 1 + n, <<"/", ".", ".">>)
    THEN n + 4 ELSE 0

\* the start positions of all the matches in s
DotDotMatches(s, excl) == {i \in 1..Len(s) : DotDotMatchLen(s, i, excl) > 0}

RemoveAt(s, i, n) == Take(s, i - 1) \o Drop(s, i + n - 1)

\* Regex::replace: the leftmost match replaced by "", s itself if none
ReplaceFirstCollapsed(s) ==
    LET ms == DotDotMatches(s, SegExcluded) IN
    IF ms = {} THEN s
    ELSE LET i == CHOOSE k \in ms : \A m \in ms : k <= m
         IN  RemoveAt(s, i, DotDotMatchLen(s, i, SegExcluded))

RECURSIVE NormalizeLoop(_, _)
NormalizeLoop(path, len_before) ==
    LET p == ReplaceFirstCollapsed(path) IN
    IF Len(p) = len_before THEN p ELSE NormalizeLoop(p, Len(p))

\* a plausible bug: a single replacement, the loop forgotten
NormalizeOnce(path) == ReplaceFirstCollapsed(path)

normalize_path(path) == NormalizeLoop(path, Len(path))

(***************************************************************************)
(* The paths normalisation is run on: every path of at most MaxSegs        *)
(* segments, absolute or relative, and the paths of the source's test.     *)
(***************************************************************************)
MaxSegs == 4

Segments ==
    { <<>>, <<"a">>, <<".">>, <<".", ".">>, <<"\\">>, <<".", ".", "a">> }

TestPaths ==
    { <<"/","a","b","c","/","t","e","s","t","/",".",".","/","t","h","i","n","g",".","p","n","g">>,
      <<"/","a","b","c","/","d","e","f","/",".",".","/",".",".","/","t","h","i","n","g",".","p","n","g">>,
      <<"/","h","o","m","e","/","d","y","s","/","t","e","s","t">>,
      <<"/","h","o","m","e","/","d","y","s","/",".",".">>,
      <<"/","h","o","m","e","/","d","y","s","/",".",".","/">>,
      <<"/",".",".">>,
      <<".",".","/","t","e","s","t">>,
      <<"/","h","o","m","e","/","d","y","s","/",".",".","/",".",".","/",".",".","/","t","e","s","t">>,
      <<"/","h","o","m","e","/","d","y","s","/","d","e","v","/","b","r","o","o","t","/",".",".","/",".",".","/",".",".","/","c","a","n","o","p","/","t","e","s","t">> }

NormInputs ==
    {IF lead THEN <<"/">> \o JoinWith(segs, <<"/">>) ELSE JoinWith(segs, <<"/">>) :
        segs \in SeqsUpTo(Segments, MaxSegs), lead \in BOOLEAN}
    \cup TestPaths

NormInit ==
    /\ n_pc = "start"
    /\ n_in \in NormInputs
    /\ n_out = <<>>
    /\ n_again = <<>>
    /\ cur_verb = [ok |-> FALSE]
    /\ cur_file = <<>>
    /\ cur_is_dir = FALSE
    /\ cur_args = <<>>
    /\ call = [op |-> "none"]
    /\ out = <<>>
    /\ result = [tag |-> "none", msg |-> <<>>, tokens |-> <<>>]
    /\ export_file = <<>>
    /\ app = "running"
    /\ home_dir = <<>>
    /\ launch = [cmd_export_path |-> FALSE, file_export_path |-> FALSE]

\* a caller normalises a path
Normalize ==
    /\ n_pc = "start"
    /\ n_out' = normalize_path(n_in)
    /\ n_pc' = "once"
    /\ UNCHANGED <<n_in, n_again, evars>>

\* a caller normalises an already normalised path
NormalizeAgain ==
    /\ n_pc = "once"
    /\ n_again' = normalize_path(n_out)
    /\ n_pc' = "twice"
    /\ UNCHANGED <<n_in, n_out, evars>>

NormNext == Normalize \/ NormalizeAgain

SpecNormalize == NormInit /\ [][NormNext]_vars

(***************************************************************************)
(* Claims about normalize_path, checked under SpecNormalize                *)
(***************************************************************************)
\* C1: normalize_path is idempotent: normalising a normalised path returns it
\* unchanged, and a normalised path holds no further match of the pattern.
C1_Idempotent ==
    /\ n_pc = "twice" => n_again = n_out
    /\ n_pc \in {"once", "twice"} =>
           \A i \in 1..Len(n_out) :
               ~(/\ n_out[i] = "/"
                 /\ \E n \in 1..Len(n_out) :
                       /\ \A k \in 1..n : /\ i + k <= Len(n_out)
                                           /\ n_out[i + k] \notin {"/", ".", "\\"}
                       /\ StartsWithAt(n_out, i + n + 1, <<"/", ".", ".">>))

\* C1 witness: a path that needed two collapses has been normalised twice
C1_Witness ==
    /\ n_pc = "twice"
    /\ n_in = <<"/", "a", "/", "a", "/", ".", ".", "/", ".", ".">>
    /\ n_out = <<>>
    /\ n_again = <<>>

\* every string reachable from s by removing matches of /[^excl]+/\.\. , one at
\* a time and in any order, until none is left
RECURSIVE NormalForms(_, _)
NormalForms(s, excl) ==
    LET ms == DotDotMatches(s, excl) IN
    IF ms = {} THEN {s}
    ELSE UNION {NormalForms(RemoveAt(s, i, DotDotMatchLen(s, i, excl)), excl) : i \in ms}

\* the expected results of path_normalize_tests::test_path_normalization
TestExpected ==
    { <<<<"/","a","b","c","/","t","e","s","t","/",".",".","/","t","h","i","n","g",".","p","n","g">>,
        <<"/","a","b","c","/","t","h","i","n","g",".","p","n","g">>>>,
      <<<<"/","a","b","c","/","d","e","f","/",".",".","/",".",".","/","t","h","i","n","g",".","p","n","g">>,
        <<"/","t","h","i","n","g",".","p","n","g">>>>,
      <<<<"/","h","o","m","e","/","d","y","s","/","t","e","s","t">>,
        <<"/","h","o","m","e","/","d","y","s","/","t","e","s","t">>>>,
      <<<<"/","h","o","m","e","/","d","y","s","/",".",".">>,
        <<"/","h","o","m","e">>>>,
      <<<<"/","h","o","m","e","/","d","y","s","/",".",".","/">>,
        <<"/","h","o","m","e","/">>>>,
      <<<<"/",".",".">>,
        <<"/",".",".">>>>,
      <<<<".",".","/","t","e","s","t">>,
        <<".",".","/","t","e","s","t">>>>,
      <<<<"/","h","o","m","e","/","d","y","s","/",".",".","/",".",".","/",".",".","/","t","e","s","t">>,
        <<"/",".",".","/","t","e","s","t">>>>,
      <<<<"/","h","o","m","e","/","d","y","s","/","d","e","v","/","b","r","o","o","t","/",".",".","/",".",".","/",".",".","/","c","a","n","o","p","/","t","e","s","t">>,
        <<"/","h","o","m","e","/","c","a","n","o","p","/","t","e","s","t">>>> }

ExamplesHold ==
    \A e \in TestExpected : (n_pc = "once" /\ n_in = e[1]) => n_out = e[2]

\* C2 as stated: the result is what removing "/segment/.." leaves, a segment
\* being made of characters other than "/" and "."
C2_Original ==
    /\ n_pc = "once" => NormalForms(n_in, {"/", "."}) = {n_out}
    /\ ExamplesHold

\* C2 amended: the result is the one string that removing "/segment/.." over and
\* over leaves, a segment being made of characters other than "/", "." and "\";
\* the examples of the source's test hold.
C2_Amended ==
    /\ n_pc = "once" => NormalForms(n_in, {"/", ".", "\\"}) = {n_out}
    /\ ExamplesHold

\* C2 witness: "/abc/def/../../thing.png" has been normalised to "/thing.png"
C2_Witness ==
    /\ n_pc = "once"
    /\ n_in = <<"/","a","b","c","/","d","e","f","/",".",".","/",".",".","/","t","h","i","n","g",".","p","n","g">>
    /\ n_out = <<"/","t","h","i","n","g",".","p","n","g">>

(***************************************************************************)
(* Option values: None is the empty tuple, Some(v) the one-element tuple.  *)
(***************************************************************************)
None == <<>>

Some(v) == <<v>>

IsSome(o) == Len(o) = 1

Unwrap(o) == o[1]

\* a HashMap<String, String> is a function from keys to values
EmptyMap == [k \in {} |-> <<>>]

\* HashMap::insert: the new value replaces the one the key had
Insert(map, k, v) == (k :> v) @@ map

(***************************************************************************)
(* The names the source spells out                                         *)
(***************************************************************************)
s_file == <<"f", "i", "l", "e">>

s_parent == <<"p", "a", "r", "e", "n", "t">>

s_directory == <<"d", "i", "r", "e", "c", "t", "o", "r", "y">>

s_path_from_directory == <<"p", "a", "t", "h", "-", "f", "r", "o", "m", "-", "d", "i", "r", "e", "c", "t", "o", "r", "y">>

s_path_from_parent == <<"p", "a", "t", "h", "-", "f", "r", "o", "m", "-", "p", "a", "r", "e", "n", "t">>

s_invalid_format == <<"i", "n", "v", "a", "l", "i", "d", " ", "f", "o", "r", "m", "a", "t", ":", " ">>

s_takes_no_arguments == <<" ", "d", "o", "e", "s", "n", "'", "t", " ", "t", "a", "k", "e", " ", "a", "r", "g", "u", "m", "e", "n", "t", "s">>

\* the message of the DisplayError, its backquotes left out
s_needs_br ==
    <<"t", "h", "i", "s", " ", "v", "e", "r", "b", " ", "n", "e", "e", "d", "s", " ", "b", "r", "o", "o", "t", " ", "t", "o", " ", "b", "e", " ", "l", "a", "u", "n", "c", "h", "e", "d", " ", "a", "s", " ", "b", "r", ".", " ", "T", "r", "y", " ", "b", "r", "o", "o", "t", " ", "-", "-", "i", "n", "s", "t", "a", "l", "l", " ", "i", "f", " ", "n", "e", "c", "e", "s", "s", "a", "r", "y", ".">>

(***************************************************************************)
(* GROUP: the regex \{([^{}:]+)(?::([^{}:]+))?\}                           *)
(***************************************************************************)
GroupExcluded == {"{", "}", ":"}

\* the match of GROUP that starts at s[i]: the name (group 1), the directive
\* (group 2, an Option) and the length of the match. Both classes exclude
\* what may follow them, so the greedy runs are the only candidates.
GroupMatchAt(s, i) ==
    LET n == RunLen(s, i + 1, GroupExcluded)
        j == i + 1 + n
        m == RunLen(s, j + 1, GroupExcluded)
        k == j + 1 + m
    IN  IF i > Len(s) \/ s[i] # "{" \/ n = 0 \/ j > Len(s)
        THEN [ok |-> FALSE]
        ELSE IF s[j] = "}"
        THEN [ok |-> TRUE, name |-> SubSeq(s, i + 1, j - 1), fmt |-> None,
              len |-> j - i + 1]
        ELSE IF s[j] = ":" /\ m > 0 /\ k <= Len(s) /\ s[k] = "}"
        THEN [ok |-> TRUE, name |-> SubSeq(s, i + 1, j - 1),
              fmt |-> Some(SubSeq(s, j + 1, k - 1)), len |-> k - i + 1]
        ELSE [ok |-> FALSE]

\* whether s holds a placeholder
HasGroup(s) == \E i \in 1..Len(s) : GroupMatchAt(s, i).ok

(***************************************************************************)
(* The regex crate, for the patterns make_invocation_args_regex builds:    *)
(* ^ atoms $, an atom being a literal character or a group (?P<name>.+),   *)
(* each optionally followed by `?`. A compiled regex is the sequence of    *)
(* its atoms: [grp, c, name, opt].                                         *)
(***************************************************************************)
\* GROUP.replace_all(spec, r"(?P<$1>.+)"): the source text of the regex, a
\* sequence of characters and of groups
RECURSIVE GroupsToCaptures(_, _)
GroupsToCaptures(spec, i) ==
    IF i > Len(spec) THEN <<>>
    ELSE LET m == GroupMatchAt(spec, i) IN
         IF m.ok
         THEN <<[grp |-> TRUE, c |-> "", name |-> m.name, opt |-> FALSE]>>
              \o GroupsToCaptures(spec, i + m.len)
         ELSE <<[grp |-> FALSE, c |-> spec[i], name |-> <<>>, opt |-> FALSE]>>
              \o GroupsToCaptures(spec, i + 1)

\* the parser's handling of `?`: the atom before it becomes optional
RECURSIVE ParseOptional(_)
ParseOptional(src) ==
    IF src = <<>> THEN <<>>
    ELSE IF Len(src) >= 2 /\ ~src[2].grp /\ src[2].c = "?"
    THEN <<[src[1] EXCEPT !.opt = TRUE]>> \o ParseOptional(Tail(Tail(src)))
    ELSE <<src[1]>> \o ParseOptional(Tail(src))

Letters ==
    {"a", "b", "c", "d", "e", "f", "g", "h", "i", "j", "k", "l", "m", "n", "o",
     "p", "q", "r", "s", "t", "u", "v", "w", "x", "y", "z", "_"}

Digits == {"0", "1", "2", "3", "4", "5", "6", "7", "8", "9"}

\* a capture group's name is [_A-Za-z][_0-9A-Za-z]*
ValidGroupName(name) ==
    /\ name # <<>>
    /\ name[1] \in Letters
    /\ \A i \in 1..Len(name) : name[i] \in Letters \cup Digits

\* Regex::new: an error for a `?` with nothing to repeat, a bad group name or
\* a group name used twice
RegexNew(src) ==
    LET atoms == ParseOptional(src)
        groups == {i \in 1..Len(atoms) : atoms[i].grp}
    IN  IF \/ \E i \in 1..Len(atoms) : ~atoms[i].grp /\ atoms[i].c = "?"
           \/ \E i \in groups : ~ValidGroupName(atoms[i].name)
           \/ \E i, j \in groups : i # j /\ atoms[i].name = atoms[j].name
        THEN [ok |-> FALSE]
        ELSE [ok |-> TRUE, atoms |-> atoms]

\* Regex::captures on ^atoms[k..]$ against s[i..]: the match the regex crate
\* reports, the one a backtracking search finds first (a group takes as much
\* as it can, an optional atom is tried present before absent). caps maps the
\* name of every group that took part to what it captured.
RECURSIVE MatchFrom(_, _, _, _)
RECURSIVE MatchGroup(_, _, _, _, _)
MatchGroup(atoms, k, s, i, j) ==
    \* the group atoms[k] captures s[i..j], or less
    IF j < i THEN [ok |-> FALSE]
    ELSE LET rest == MatchFrom(atoms, k + 1, s, j + 1) IN
         IF rest.ok
         THEN [ok |-> TRUE, caps |-> Insert(rest.caps, atoms[k].name, SubSeq(s, i, j))]
         ELSE MatchGroup(atoms, k, s, i, j - 1)

MatchFrom(atoms, k, s, i) ==
    IF k > Len(atoms)
    THEN IF i = Len(s) + 1 THEN [ok |-> TRUE, caps |-> EmptyMap] ELSE [ok |-> FALSE]
    ELSE LET a == atoms[k]
             present ==
                 IF a.grp THEN MatchGroup(atoms, k, s, i, Len(s))
                 ELSE IF i <= Len(s) /\ s[i] = a.c
                      THEN MatchFrom(atoms, k + 1, s, i + 1)
                      ELSE [ok |-> FALSE]
         IN  IF present.ok \/ ~a.opt THEN present
             ELSE MatchFrom(atoms, k + 1, s, i)

Captures(regex, s) == MatchFrom(regex, 1, s, 1)

IsMatch(regex, s) == Captures(regex, s).ok

\* make_invocation_args_regex
make_invocation_args_regex(spec) == RegexNew(GroupsToCaptures(spec, 1))

(***************************************************************************)
(* Verbs                                                                   *)
(***************************************************************************)
\* Verb::create_external, from the parsed invocation (name, args): the verb, or
\* a ConfError when the regex of its arguments does not compile
create_external(name, args, execution, from_shell, leave_broot) ==
    LET parser == IF IsSome(args) THEN make_invocation_args_regex(Unwrap(args))
                  ELSE [ok |-> TRUE]
    IN  IF ~parser.ok THEN [ok |-> FALSE]
        ELSE [ok |-> TRUE, builtin |-> FALSE, name |-> name, args |-> args,
              args_parser |-> IF IsSome(args) THEN Some(parser.atoms) ELSE None,
              execution |-> execution, from_shell |-> from_shell,
              leave_broot |-> leave_broot]

\* Verb::create_builtin
create_builtin(name) ==
    [ok |-> TRUE, builtin |-> TRUE, name |-> name, args |-> None,
     args_parser |-> None, execution |-> <<":">> \o name,
     from_shell |-> FALSE, leave_broot |-> TRUE]

\* a plausible bug: the argument text of a verb without parser let through
MatchErrorArgsIgnored(verb, inv_name, inv_args) ==
    IF ~IsSome(verb.args_parser) THEN None
    ELSE IF IsMatch(Unwrap(verb.args_parser),
                    IF IsSome(inv_args) THEN Unwrap(inv_args) ELSE <<>>)
    THEN None
    ELSE Some(<<"to_string_for_name">> \o inv_name)

\* Verb::match_error: None, or Some error to display. The usage string
\* (VerbInvocation::to_string_for_name) is kept as the call it is.
match_error(verb, inv_name, inv_args) ==
    IF ~IsSome(inv_args) /\ ~IsSome(verb.args_parser) THEN None
    ELSE IF ~IsSome(inv_args)
    THEN IF IsMatch(Unwrap(verb.args_parser), <<>>) THEN None
         ELSE Some(<<"to_string_for_name">> \o inv_name)
    ELSE IF IsSome(verb.args_parser)
    THEN IF IsMatch(Unwrap(verb.args_parser), Unwrap(inv_args)) THEN None
         ELSE Some(<<"to_string_for_name">> \o inv_name)
    ELSE Some(inv_name \o s_takes_no_arguments)

(***************************************************************************)
(* Paths                                                                   *)
(***************************************************************************)
\* the index of the last "/" of s, 0 if it has none
RECURSIVE LastSlash(_, _)
LastSlash(s, i) ==
    IF i = 0 THEN 0 ELSE IF s[i] = "/" THEN i ELSE LastSlash(s, i - 1)

\* Path::parent, for a path without "." components, doubled or trailing
\* slashes: None for the root and for the empty path
Parent(path) ==
    LET k == LastSlash(path, Len(path)) IN
    IF path = <<>> \/ path = <<"/">> THEN None
    ELSE IF k <= 1 THEN Some(Take(path, k))
    ELSE Some(Take(path, k - 1))

\* Path::to_string_lossy: every path of the model is valid Unicode
to_string_lossy(path) == path

\* a string replaced character by character
RECURSIVE ReplaceChar(_, _, _)
ReplaceChar(s, c, by) ==
    IF s = <<>> THEN <<>>
    ELSE (IF Head(s) = c THEN by ELSE <<Head(s)>>) \o ReplaceChar(Tail(s), c, by)

\* external::escape_for_shell: a path of word characters, "/", "." and "-" is
\* left as it is, any other is put between single quotes
escape_for_shell(path) ==
    IF \A i \in 1..Len(path) : path[i] \in Letters \cup Digits \cup {"/", ".", "-"}
    THEN to_string_lossy(path)
    ELSE <<"'">> \o ReplaceChar(to_string_lossy(path), "'", <<"'", "\\", "'", "'">>)
         \o <<"'">>

\* path_to_string
path_to_string(path, for_shell) ==
    IF for_shell THEN escape_for_shell(path) ELSE to_string_lossy(path)

(***************************************************************************)
(* The replacement map                                                     *)
(***************************************************************************)
\* a plausible bug: the entries of the path inserted last, over the captures
ReplacementMapPathLast(verb, file, is_dir, args, for_shell) ==
    LET parent == IF IsSome(Parent(file)) THEN Unwrap(Parent(file)) ELSE file
        file_str == path_to_string(file, for_shell)
        parent_str == path_to_string(parent, for_shell)
        a == IF IsSome(args) THEN Unwrap(args) ELSE <<>>
        input_cap == IF IsSome(verb.args_parser)
                     THEN Captures(Unwrap(verb.args_parser), a)
                     ELSE [ok |-> FALSE]
        caps == IF input_cap.ok THEN input_cap.caps ELSE EmptyMap
    IN  Insert(Insert(Insert(caps, s_file, file_str), s_parent, parent_str),
               s_directory, IF is_dir THEN file_str ELSE parent_str)

\* Verb::replacement_map. The captures are inserted after the three entries
\* of the path: a capture named as one of them replaces it.
replacement_map(verb, file, is_dir, args, for_shell) ==
    LET parent == IF IsSome(Parent(file)) THEN Unwrap(Parent(file)) ELSE file
        file_str == path_to_string(file, for_shell)
        parent_str == path_to_string(parent, for_shell)
        map1 == Insert(EmptyMap, s_file, file_str)
        map2 == Insert(map1, s_parent, parent_str)
        dir_str == IF is_dir THEN file_str ELSE parent_str
        map3 == Insert(map2, s_directory, dir_str)
        a == IF IsSome(args) THEN Unwrap(args) ELSE <<>>
        input_cap == IF IsSome(verb.args_parser)
                     THEN Captures(Unwrap(verb.args_parser), a)
                     ELSE [ok |-> FALSE]
    IN  IF input_cap.ok THEN input_cap.caps @@ map3 ELSE map3

(***************************************************************************)
(* Path resolution and the replacement of one placeholder                  *)
(***************************************************************************)
\* a panic (unwrap on None) leaves this character in the result
Panic == <<"!panic">>

HasPanicked(s) == \E i \in 1..Len(s) : s[i] = "!panic"

\* PathSource::replacement_map_key
replacement_map_key(source) ==
    IF source = "Directory" THEN s_directory ELSE s_parent

\* the regex ^~(/|$): group 0 and group 1 of the match, if any
TildeMatch(input) ==
    IF StartsWith(input, <<"~", "/">>) THEN [ok |-> TRUE, c0 |-> <<"~", "/">>, c1 |-> <<"/">>]
    ELSE IF input = <<"~">> THEN [ok |-> TRUE, c0 |-> <<"~">>, c1 |-> <<>>]
    ELSE [ok |-> FALSE]

\* a plausible bug: the tilde tested before the leading slash and without
\* looking at what follows it
PathFromAnyTilde(source, input, map, home) ==
    IF StartsWith(input, <<"~">>)
    THEN (IF IsSome(home) THEN Unwrap(home) ELSE <<"~">>) \o Drop(input, 1)
    ELSE IF StartsWith(input, <<"/">>) THEN input
    ELSE normalize_path(map[replacement_map_key(source)] \o <<"/">> \o input)

\* path_from; home is what UserDirs::new() finds, an Option
path_from(source, input, map, home) ==
    LET tilde == TildeMatch(input) IN
    IF StartsWith(input, <<"/">>) THEN input
    ELSE IF tilde.ok
    THEN (IF IsSome(home) THEN to_string_lossy(Unwrap(home)) \o tilde.c1 ELSE tilde.c0)
         \o Drop(input, Len(tilde.c0))
    ELSE normalize_path(
             (IF replacement_map_key(source) \in DOMAIN map
              THEN map[replacement_map_key(source)] ELSE Panic)
             \o <<"/">> \o input)

\* the Debug form of a str ({:?}): between double quotes, the double quote and
\* the backslash escaped
DebugStr(s) ==
    <<"\"">> \o ReplaceChar(ReplaceChar(s, "\\", <<"\\", "\\">>), "\"", <<"\\", "\"">>)
    \o <<"\"">>

\* a plausible bug: the directive looked at before the name
DoExecReplacementFormatFirst(name, fmt, map, home) ==
    IF IsSome(fmt) /\ Unwrap(fmt) \notin {s_path_from_directory, s_path_from_parent}
    THEN s_invalid_format \o DebugStr(Unwrap(fmt))
    ELSE IF name \notin DOMAIN map THEN <<"{">> \o name \o <<"}">>
    ELSE IF ~IsSome(fmt) THEN map[name]
    ELSE IF Unwrap(fmt) = s_path_from_directory
    THEN path_from("Directory", map[name], map, home)
    ELSE path_from("Parent", map[name], map, home)

\* do_exec_replacement, on the name (group 1) and the directive (group 2) of a
\* placeholder
do_exec_replacement(name, fmt, map, home) ==
    IF name \in DOMAIN map
    THEN LET cap == map[name] IN
         IF IsSome(fmt)
         THEN IF Unwrap(fmt) = s_path_from_directory
              THEN path_from("Directory", cap, map, home)
              ELSE IF Unwrap(fmt) = s_path_from_parent
              THEN path_from("Parent", cap, map, home)
              ELSE s_invalid_format \o DebugStr(Unwrap(fmt))
         ELSE cap
    ELSE <<"{">> \o name \o <<"}">>

\* GROUP.replace_all(s, |ec| do_exec_replacement(ec, map)), from s[i] on
RECURSIVE ReplaceAllGroups(_, _, _, _)
ReplaceAllGroups(s, i, map, home) ==
    IF i > Len(s) THEN <<>>
    ELSE LET m == GroupMatchAt(s, i) IN
         IF m.ok
         THEN do_exec_replacement(m.name, m.fmt, map, home)
              \o ReplaceAllGroups(s, i + m.len, map, home)
         ELSE <<s[i]>> \o ReplaceAllGroups(s, i + 1, map, home)

(***************************************************************************)
(* Template expansion                                                      *)
(***************************************************************************)
Whitespace == {" ", "\t", "\n", "\r"}

\* str::split_whitespace: the maximal runs of characters that are not
\* whitespace
RECURSIVE SplitFrom(_, _)
SplitFrom(s, i) ==
    IF i > Len(s) THEN <<>>
    ELSE IF s[i] \in Whitespace THEN SplitFrom(s, i + 1)
    ELSE LET n == RunLen(s, i, Whitespace) IN
         <<SubSeq(s, i, i + n - 1)>> \o SplitFrom(s, i + n)

split_whitespace(s) == SplitFrom(s, 1)

\* a plausible bug: the pattern expanded as a whole and split afterwards
ExecTokenSplitAfter(verb, file, is_dir, args, home) ==
    split_whitespace(
        ReplaceAllGroups(verb.execution, 1,
                         replacement_map(verb, file, is_dir, args, FALSE), home))

\* Verb::exec_token
exec_token(verb, file, is_dir, args, home) ==
    LET map == replacement_map(verb, file, is_dir, args, FALSE)
        tokens == split_whitespace(verb.execution)
    IN  [i \in 1..Len(tokens) |-> ReplaceAllGroups(tokens[i], 1, map, home)]

\* the paths that exist: the selected one and the directories above it
RECURSIVE Ancestors(_)
Ancestors(path) ==
    IF IsSome(Parent(path)) THEN {path} \cup Ancestors(Unwrap(Parent(path)))
    ELSE {path}

\* Verb::shell_exec_string: a token that names an existing path is replaced by
\* Path::to_str of itself
shell_exec_string(verb, file, is_dir, args, home) ==
    LET map == replacement_map(verb, file, is_dir, args, TRUE)
        expanded == ReplaceAllGroups(verb.execution, 1, map, home)
        tokens == split_whitespace(expanded)
        made == [i \in 1..Len(tokens) |->
                    IF tokens[i] \in Ancestors(file) THEN to_string_lossy(tokens[i])
                    ELSE tokens[i]]
    IN  JoinWith(made, <<" ">>)

(***************************************************************************)
(* The dispatcher                                                          *)
(***************************************************************************)
\* an AppStateCmdResult, or tag "Err" for the Err(ProgramError) that `?` returns
CmdResult(tag, msg, tokens) == [tag |-> tag, msg |-> msg, tokens |-> tokens]

\* the text of the launcher's error, whatever it is
s_launch_error == <<"launch-error">>

\* Verb::to_cmd_result. con tells which export paths the launch arguments
\* give, content is what the export file holds, io what the system calls of
\* this call do: "ok", or the one that fails. Returns the result and the new
\* content of the export file.
to_cmd_result(verb, file, is_dir, args, con, home, io, content) ==
    IF verb.from_shell
    THEN IF con.cmd_export_path
         THEN IF io \in {"open_fails", "write_fails"}
              THEN [ret |-> CmdResult("Err", <<>>, <<>>), content |-> content]
              ELSE [ret |-> CmdResult("Quit", <<>>, <<>>),
                    content |-> content
                                \o shell_exec_string(verb, file, is_dir, args, home)
                                \o <<"\n">>]
         ELSE IF con.file_export_path
         THEN IF io \in {"open_fails", "write_fails"}
              THEN [ret |-> CmdResult("Err", <<>>, <<>>), content |-> content]
              ELSE [ret |-> CmdResult("Quit", <<>>, <<>>),
                    content |-> content \o to_string_lossy(file) \o <<"\n">>]
         ELSE [ret |-> CmdResult("DisplayError", s_needs_br, <<>>), content |-> content]
    ELSE LET tokens == exec_token(verb, file, is_dir, args, home) IN
         IF io = "program_fails"
         THEN [ret |-> CmdResult("Err", <<>>, <<>>), content |-> content]
         ELSE IF verb.leave_broot
         THEN [ret |-> CmdResult("Launch", <<>>, tokens), content |-> content]
         ELSE IF io = "execute_fails"
         THEN [ret |-> CmdResult("DisplayError", s_launch_error, <<>>),
               content |-> content]
         ELSE [ret |-> CmdResult("RefreshState{clear_cache:true}", <<>>, <<>>),
               content |-> content]

(***************************************************************************)
(* The verbs of the configuration, the selections and the argument texts   *)
(***************************************************************************)
\* the external verbs as configured: the name and the argument text of the
\* invocation, the execution pattern, from_shell, leave_broot
Configs ==
    << \* e : e {file}
       <<<<"e">>, None, <<"e", " ", "{", "f", "i", "l", "e", "}">>, FALSE, TRUE>>,
       \* cd : cd {directory}, from the parent shell
       <<<<"c", "d">>, None, <<"c", "d", " ", "{", "d", "i", "r", "e", "c", "t", "o", "r", "y", "}">>, TRUE, TRUE>>,
       \* md {p} : mkdir -p {p:path-from-directory}
       <<<<"m", "d">>, Some(<<"{", "p", "}">>), <<"m", "k", "d", "i", "r", " ", "-", "p", " ", "{", "p", ":", "p", "a", "t", "h", "-", "f", "r", "o", "m", "-", "d", "i", "r", "e", "c", "t", "o", "r", "y", "}">>, FALSE, FALSE>>,
       \* cp {n} : cp {file} {n:path-from-parent}
       <<<<"c", "p">>, Some(<<"{", "n", "}">>), <<"c", "p", " ", "{", "f", "i", "l", "e", "}", " ", "{", "n", ":", "p", "a", "t", "h", "-", "f", "r", "o", "m", "-", "p", "a", "r", "e", "n", "t", "}">>, FALSE, FALSE>>,
       \* bk : cp {file} {directory}/backup
       <<<<"b", "k">>, None, <<"c", "p", " ", "{", "f", "i", "l", "e", "}", " ", "{", "d", "i", "r", "e", "c", "t", "o", "r", "y", "}", "/", "b", "a", "c", "k", "u", "p">>, FALSE, FALSE>>,
       \* t a : t {file}, an argument text without placeholder
       <<<<"t">>, Some(<<"a">>), <<"t", " ", "{", "f", "i", "l", "e", "}">>, FALSE, FALSE>>,
       \* mv {parent} : mv {file} {parent}, from the parent shell
       <<<<"m", "v">>, Some(<<"{", "p", "a", "r", "e", "n", "t", "}">>), <<"m", "v", " ", "{", "f", "i", "l", "e", "}", " ", "{", "p", "a", "r", "e", "n", "t", "}">>, TRUE, TRUE>>,
       \* g {a}? : g {a} {b}, an optional argument
       <<<<"g">>, Some(<<"{", "a", "}", "?">>), <<"g", " ", "{", "a", "}", " ", "{", "b", "}">>, FALSE, TRUE>>,
       \* x {a} : x {a:bad} {b:bad} {a:"} {{b}:}
       <<<<"x">>, Some(<<"{", "a", "}">>), <<"x", " ", "{", "a", ":", "b", "a", "d", "}", " ", "{", "b", ":", "b", "a", "d", "}", " ", "{", "a", ":", "\"", "}", " ", "{", "{", "b", "}", ":", "}">>, FALSE, TRUE>>,
       \* r {a} {b} : r {b} {a}
       <<<<"r">>, Some(<<"{", "a", "}", " ", "{", "b", "}">>), <<"r", " ", "{", "b", "}", " ", "{", "a", "}">>, FALSE, TRUE>>,
       \* ec {t} : echo {t}, from the parent shell
       <<<<"e", "c">>, Some(<<"{", "t", "}">>), <<"e", "c", "h", "o", " ", "{", "t", "}">>, TRUE, TRUE>>,
       \* sh {p} : cat {p:path-from-directory}, from the parent shell, not leaving
       <<<<"s", "h">>, Some(<<"{", "p", "}">>), <<"c", "a", "t", " ", "{", "p", ":", "p", "a", "t", "h", "-", "f", "r", "o", "m", "-", "d", "i", "r", "e", "c", "t", "o", "r", "y", "}">>, TRUE, FALSE>>,
       \* dup {a} {a} : a group name used twice, refused as a ConfError
       <<<<"d", "u", "p">>, Some(<<"{", "a", "}", " ", "{", "a", "}">>), <<"d", "u", "p", " ", "{", "a", "}">>, FALSE, TRUE>> >>

VerbOf(c) == create_external(c[1], c[2], c[3], c[4], c[5])

\* the verbs that loading the configuration gives
ExternalVerbs == {VerbOf(Configs[i]) : i \in {k \in 1..Len(Configs) : VerbOf(Configs[k]).ok}}

BuiltinVerbs == {create_builtin(<<"b", "a", "c", "k">>)}

VerbStore == ExternalVerbs \cup BuiltinVerbs

\* the selected path and whether it is a directory
Selections ==
    { <<<<"/">>, TRUE>>, <<<<"/", "a">>, TRUE>>, <<<<"/", "a">>, FALSE>>, <<<<"/", "a", "/", "b">>, TRUE>>,
      <<<<"/", "a", "/", "b">>, FALSE>>, <<<<"/", "a", " ", "b">>, FALSE>>, <<<<"/", "a", " ", "b">>, TRUE>>,
      <<<<"/", "a", "/", "b", "/", "c", ".", "t", "x", "t">>, FALSE>> }

MaxArgLen == 2

ArgChars == {"a", " ", "/", "~"}

\* the argument text of an invocation: none, or a text that is not empty
ArgsInputs ==
    {None}
    \cup {Some(a) : a \in SeqsUpTo(ArgChars, MaxArgLen) \ {<<>>}}
    \cup {Some(<<".", ".">>), Some(<<".", ".", "/", "a">>), Some(<<"a", "/", ".", ".", "/", ".", ".">>), Some(<<"a", " ", " ", "a">>), Some(<<"~", "/", "d", "o", "c", "s">>),
          Some(<<"n", "e", "w", "n", "a", "m", "e">>)}

Homes == {None, Some(<<"/", "h", "o", "m", "e", "/", "a", "l", "i", "c", "e">>)}

LaunchContexts == [cmd_export_path : BOOLEAN, file_export_path : BOOLEAN]

\* what the export file may hold when broot starts
EarlierContents == {<<>>, <<"x", "\n">>}

\* the outcomes of the system calls a dispatch makes
IoOutcomes(verb) ==
    IF verb.from_shell THEN {"ok", "open_fails", "write_fails"}
    ELSE {"ok", "program_fails", "execute_fails"}

(***************************************************************************)
(* The verb engine at work: broot is running with a launch context, a home *)
(* directory and an export file; the user has selected a path and typed an *)
(* invocation that matched a verb, and the application calls the engine.   *)
(***************************************************************************)
Init ==
    /\ cur_verb \in VerbStore
    /\ \E sel \in Selections : cur_file = sel[1] /\ cur_is_dir = sel[2]
    /\ cur_args \in ArgsInputs
    /\ call = [op |-> "none"]
    /\ out = <<>>
    /\ result = CmdResult("none", <<>>, <<>>)
    /\ export_file \in EarlierContents
    /\ app = "running"
    /\ home_dir \in Homes
    /\ launch \in LaunchContexts
    /\ n_pc = "start"
    /\ n_in = <<>>
    /\ n_out = <<>>
    /\ n_again = <<>>

Idle == app = "running" /\ call.op = "none"

\* the status line asks whether the arguments typed fit the verb
MatchError ==
    /\ Idle
    /\ call' = [op |-> "match_error"]
    /\ out' = match_error(cur_verb, cur_verb.name, cur_args)
    /\ UNCHANGED <<inputs, result, export_file, app, nvars>>

\* the replacement map is built, for the shell or not
ReplacementMap ==
    /\ Idle
    /\ \E for_shell \in BOOLEAN :
        /\ call' = [op |-> "replacement_map", for_shell |-> for_shell]
        /\ out' = replacement_map(cur_verb, cur_file, cur_is_dir, cur_args, for_shell)
    /\ UNCHANGED <<inputs, result, export_file, app, nvars>>

\* the tokens of the command of an external verb are built
ExecToken ==
    /\ Idle
    /\ ~cur_verb.builtin
    /\ call' = [op |-> "exec_token"]
    /\ out' = exec_token(cur_verb, cur_file, cur_is_dir, cur_args, home_dir)
    /\ UNCHANGED <<inputs, result, export_file, app, nvars>>

\* the command of an external verb is built as one string for the shell
ShellExecString ==
    /\ Idle
    /\ ~cur_verb.builtin
    /\ call' = [op |-> "shell_exec_string"]
    /\ out' = shell_exec_string(cur_verb, cur_file, cur_is_dir, cur_args, home_dir)
    /\ UNCHANGED <<inputs, result, export_file, app, nvars>>

\* an external verb is dispatched; before is the export file as the call
\* found it. Quit and a launch that leaves end the application, and so does
\* an Err, which the caller receives in place of a result.
ToCmdResult ==
    /\ Idle
    /\ ~cur_verb.builtin
    /\ \E io \in IoOutcomes(cur_verb) :
        LET r == to_cmd_result(cur_verb, cur_file, cur_is_dir, cur_args, launch,
                               home_dir, io, export_file)
        IN  /\ call' = [op |-> "to_cmd_result", io |-> io, before |-> export_file]
            /\ result' = r.ret
            /\ out' = <<>>
            /\ export_file' = r.content
            /\ app' = CASE r.ret.tag = "Quit" -> "quit"
                        [] r.ret.tag = "Launch" -> "left"
                        [] r.ret.tag = "Err" -> "failed"
                        [] OTHER -> "running"
    /\ UNCHANGED <<inputs, nvars>>

\* the result is consumed; the application waits for the next event
Resume ==
    /\ app = "running"
    /\ call.op # "none"
    /\ call' = [op |-> "none"]
    /\ out' = <<>>
    /\ result' = CmdResult("none", <<>>, <<>>)
    /\ UNCHANGED <<inputs, export_file, app, nvars>>

Next ==
    \/ MatchError
    \/ ReplacementMap
    \/ ExecToken
    \/ ShellExecString
    \/ ToCmdResult
    \/ Resume

Spec == Init /\ [][Next]_vars

(***************************************************************************)
(* Claims about the verb engine, checked under Spec                        *)
(***************************************************************************)
\* whether the invocation of a verb declares a placeholder
DeclaresPlaceholder(v) == IsSome(v.args) /\ HasGroup(Unwrap(v.args))

PathEntries(f, d, for_shell) ==
    LET p == IF f = <<"/">> THEN f
             ELSE IF LastSlash(f, Len(f)) = 1 THEN <<"/">>
             ELSE Take(f, LastSlash(f, Len(f)) - 1)
    IN  (s_file :> path_to_string(f, for_shell))
        @@ (s_parent :> path_to_string(p, for_shell))
        @@ (s_directory :> path_to_string(IF d THEN f ELSE p, for_shell))

\* what the arguments typed make the groups of the verb capture
CapturedEntries(v, a) ==
    LET m == IF IsSome(v.args_parser)
             THEN Captures(Unwrap(v.args_parser), IF IsSome(a) THEN Unwrap(a) ELSE <<>>)
             ELSE [ok |-> FALSE]
    IN  IF m.ok THEN m.caps ELSE EmptyMap

\* the argument text read back from the pattern and the captures
RECURSIVE Recompose(_, _)
Recompose(atoms, caps) ==
    IF atoms = <<>> THEN <<>>
    ELSE (IF ~Head(atoms).grp THEN <<Head(atoms).c>>
          ELSE IF Head(atoms).name \in DOMAIN caps THEN caps[Head(atoms).name]
          ELSE <<>>)
         \o Recompose(Tail(atoms), caps)

\* the captures are the pieces of the text typed, none of them empty
CapturesAreTheText ==
    LET caps == CapturedEntries(cur_verb, cur_args) IN
    caps # EmptyMap =>
        /\ Recompose(Unwrap(cur_verb.args_parser), caps) = Unwrap(cur_args)
        /\ \A k \in DOMAIN caps : caps[k] # <<>>

\* C4 as stated: the map holds file, parent and directory as the selected path
\* gives them, and one entry per group that captured, and nothing else.
C4_Original ==
    call.op = "replacement_map" =>
        LET fixed == PathEntries(cur_file, cur_is_dir, call.for_shell)
            caps == CapturedEntries(cur_verb, cur_args)
        IN  /\ DOMAIN out = DOMAIN fixed \cup DOMAIN caps
            /\ \A k \in DOMAIN fixed : out[k] = fixed[k]
            /\ \A k \in DOMAIN caps : out[k] = caps[k]
            /\ CapturesAreTheText

\* C4 amended: the map holds one entry per group that captured, valued by the
\* text captured, and file, parent and directory as the selected path gives
\* them (escaped when the map is built for the shell) unless a group of that
\* name captured; it holds nothing else.
C4_Amended ==
    call.op = "replacement_map" =>
        LET fixed == PathEntries(cur_file, cur_is_dir, call.for_shell)
            caps == CapturedEntries(cur_verb, cur_args)
        IN  /\ DOMAIN out = DOMAIN fixed \cup DOMAIN caps
            /\ \A k \in DOMAIN fixed \ DOMAIN caps : out[k] = fixed[k]
            /\ \A k \in DOMAIN caps : out[k] = caps[k]
            /\ CapturesAreTheText

\* C4 witness: the map of `cp {n}` for the file /a/b/c.txt and the argument
\* "newname" holds the three entries of the path and n
C4_Witness ==
    /\ call.op = "replacement_map"
    /\ ~call.for_shell
    /\ cur_verb.name = <<"c", "p">>
    /\ cur_file = <<"/", "a", "/", "b", "/", "c", ".", "t", "x", "t">>
    /\ cur_args = Some(<<"n", "e", "w", "n", "a", "m", "e">>)
    /\ out = (s_file :> <<"/", "a", "/", "b", "/", "c", ".", "t", "x", "t">>) @@ (s_parent :> <<"/", "a", "/", "b">>)
             @@ (s_directory :> <<"/", "a", "/", "b">>) @@ (<<"n">> :> <<"n", "e", "w", "n", "a", "m", "e">>)

\* the placeholder matched is one the claim C6 speaks of: a name the map does
\* not hold and no directive, or a directive other than the two path ones
DegradedCase(m, map) ==
    IF IsSome(m.fmt) THEN Unwrap(m.fmt) \notin {s_path_from_directory, s_path_from_parent}
    ELSE m.name \notin DOMAIN map

\* every placeholder of the text is such a case
DegradedOnly(s, map) ==
    \A i \in 1..Len(s) : GroupMatchAt(s, i).ok => DegradedCase(GroupMatchAt(s, i), map)

\* the marker as C6 states it: the directive between double quotes
MarkerAsStated(fmt) == s_invalid_format \o <<"\"">> \o fmt \o <<"\"">>

\* the marker with the double quotes and backslashes of the directive escaped
RECURSIVE Escaped(_)
Escaped(s) ==
    IF s = <<>> THEN <<>>
    ELSE (IF Head(s) \in {"\"", "\\"} THEN <<"\\", Head(s)>> ELSE <<Head(s)>>)
         \o Escaped(Tail(s))

MarkerEscaped(fmt) == s_invalid_format \o <<"\"">> \o Escaped(fmt) \o <<"\"">>

\* the text s[i..] with its placeholders degraded, as stated (the marker for
\* every unknown directive) or as amended (the name is looked up first)
RECURSIVE Degraded(_, _, _, _)
Degraded(s, i, map, as_stated) ==
    IF i > Len(s) THEN <<>>
    ELSE LET m == GroupMatchAt(s, i) IN
         IF ~m.ok THEN <<s[i]>> \o Degraded(s, i + 1, map, as_stated)
         ELSE (IF as_stated
               THEN IF IsSome(m.fmt) THEN MarkerAsStated(Unwrap(m.fmt))
                    ELSE <<"{">> \o m.name \o <<"}">>
               ELSE IF m.name \notin DOMAIN map THEN <<"{">> \o m.name \o <<"}">>
                    ELSE MarkerEscaped(Unwrap(m.fmt)))
              \o Degraded(s, i + m.len, map, as_stated)

\* the whitespace-separated tokens of a pattern, cut at its blanks
PatternTokens(s) ==
    LET starts == {i \in 1..Len(s) : s[i] # " " /\ (i = 1 \/ s[i - 1] = " ")}
        EndOf(i) == CHOOSE j \in i..Len(s) :
                        /\ \A k \in i..j : s[k] # " "
                        /\ (j = Len(s) \/ s[j + 1] = " ")
        Nth(n) == CHOOSE i \in starts : Cardinality({k \in starts : k < i}) = n - 1
    IN  [n \in 1..Cardinality(starts) |-> SubSeq(s, Nth(n), EndOf(Nth(n)))]

\* C6 as stated: in the tokens exec_token returns, a placeholder whose name the
\* map does not hold is left as {name}, one with an unknown directive becomes
\* the marker invalid format: "<directive>" whatever its name, the rest of the
\* text is unchanged, and no expansion aborts.
C6_Original ==
    call.op = "exec_token" =>
        LET tokens == PatternTokens(cur_verb.execution)
            map == CapturedEntries(cur_verb, cur_args)
                   @@ PathEntries(cur_file, cur_is_dir, FALSE)
        IN  /\ Len(out) = Len(tokens)
            /\ \A i \in 1..Len(tokens) :
                /\ ~HasPanicked(out[i])
                /\ DegradedOnly(tokens[i], map) =>
                       out[i] = Degraded(tokens[i], 1, map, TRUE)

\* C6 amended: a placeholder whose name the map does not hold is replaced by
\* {name}, with or without a directive (the directive is dropped); one whose
\* name the map holds and whose directive is unknown becomes the marker
\* invalid format: "<directive>", the double quotes and backslashes of the
\* directive escaped; the rest of the text is unchanged and no expansion aborts.
C6_Amended ==
    call.op = "exec_token" =>
        LET tokens == PatternTokens(cur_verb.execution)
            map == CapturedEntries(cur_verb, cur_args)
                   @@ PathEntries(cur_file, cur_is_dir, FALSE)
        IN  /\ Len(out) = Len(tokens)
            /\ \A i \in 1..Len(tokens) :
                /\ ~HasPanicked(out[i])
                /\ DegradedOnly(tokens[i], map) =>
                       out[i] = Degraded(tokens[i], 1, map, FALSE)

\* C6 witness: `x {a:bad} {b:bad} {a:"} {{b}:}` expanded with a = "a"
C6_Witness ==
    /\ call.op = "exec_token"
    /\ cur_verb.name = <<"x">>
    /\ cur_args = Some(<<"a">>)
    /\ out = << <<"x">>, <<"i", "n", "v", "a", "l", "i", "d", " ", "f", "o", "r", "m", "a", "t", ":", " ", "\"", "b", "a", "d", "\"">>, <<"{", "b", "}">>,
                <<"i", "n", "v", "a", "l", "i", "d", " ", "f", "o", "r", "m", "a", "t", ":", " ", "\"", "\\", "\"", "\"">>, <<"{", "{", "b", "}", ":", "}">> >>

\* the path the three rules of C7 give for an input anchored at anchor
Resolved(input, anchor, home) ==
    IF input # <<>> /\ input[1] = "/" THEN input
    ELSE IF input = <<"~">> \/ (Len(input) >= 2 /\ input[1] = "~" /\ input[2] = "/")
    THEN IF home = None THEN input ELSE home[1] \o Tail(input)
    ELSE normalize_path(anchor \o <<"/">> \o input)

\* C7: `md {p}` resolves p against `directory` and `cp {n}` resolves n against
\* `parent`: an input starting with "/" is kept, a leading "~" that stands
\* alone or before "/" becomes the home directory (is kept when none is
\* known), any other input is normalize(anchor + "/" + input); the lookup of
\* the anchor never fails.
C7_PathFrom ==
    (call.op = "exec_token" /\ cur_verb.name \in {<<"m", "d">>, <<"c", "p">>} /\ IsSome(cur_args)) =>
        LET fixed == PathEntries(cur_file, cur_is_dir, FALSE)
            anchor == IF cur_verb.name = <<"m", "d">> THEN fixed[s_directory]
                      ELSE fixed[s_parent]
        IN  /\ Len(out) = 3
            /\ ~HasPanicked(out[3])
            /\ out[3] = Resolved(Unwrap(cur_args), anchor, home_dir)

\* C7 witness: ~/docs has been resolved to /home/alice/docs
C7_Witness ==
    /\ call.op = "exec_token"
    /\ cur_verb.name = <<"m", "d">>
    /\ cur_args = Some(<<"~", "/", "d", "o", "c", "s">>)
    /\ home_dir = Some(<<"/", "h", "o", "m", "e", "/", "a", "l", "i", "c", "e">>)
    /\ out = << <<"m", "k", "d", "i", "r">>, <<"-", "p">>, <<"/", "h", "o", "m", "e", "/", "a", "l", "i", "c", "e", "/", "d", "o", "c", "s">> >>

\* C10: exec_token returns one token per whitespace-separated token of the
\* pattern, in order: a token that is {file}, {parent}, {directory} or the
\* name of a capture is the whole value, blanks included.
C10_OneTokenPerToken ==
    call.op = "exec_token" =>
        LET tokens == PatternTokens(cur_verb.execution)
            caps == CapturedEntries(cur_verb, cur_args)
            map == caps @@ PathEntries(cur_file, cur_is_dir, FALSE)
        IN  /\ Len(out) = Len(tokens)
            /\ \A i \in 1..Len(tokens) : \A k \in DOMAIN map :
                   tokens[i] = <<"{">> \o k \o <<"}">> => out[i] = map[k]
            /\ \A i \in 1..Len(tokens) :
                   (\A j \in 1..Len(tokens[i]) : tokens[i][j] # "{") => out[i] = tokens[i]
            /\ (cur_verb.name = <<"b", "k">> /\ cur_file = <<"/", "a", "/", "b", "/", "c", ".", "t", "x", "t">> /\ ~cur_is_dir) =>
                   out = << <<"c", "p">>, <<"/", "a", "/", "b", "/", "c", ".", "t", "x", "t">>, <<"/", "a", "/", "b", "/", "b", "a", "c", "k", "u", "p">> >>

\* C10 witness: `e {file}` on the file "/a b" gives two tokens
C10_Witness ==
    /\ call.op = "exec_token"
    /\ cur_verb.name = <<"e">>
    /\ cur_file = <<"/", "a", " ", "b">>
    /\ out = << <<"e">>, <<"/", "a", " ", "b">> >>

C8_DispatchOutcome ==
    call.op = "to_cmd_result" =>
        IF cur_verb.from_shell
        THEN /\ result.tag # "Launch"
             /\ IF launch.cmd_export_path
                THEN /\ result.tag = "Quit"
                     /\ export_file = call.before
                            \o shell_exec_string(cur_verb, cur_file, cur_is_dir,
                                                 cur_args, home_dir)
                            \o <<"\n">>
                ELSE IF launch.file_export_path
                THEN /\ result.tag = "Quit"
                     /\ export_file = call.before \o cur_file \o <<"\n">>
                ELSE /\ result.tag = "DisplayError"
                     /\ export_file = call.before
        ELSE /\ export_file = call.before
             /\ cur_verb.leave_broot =>
                    /\ result.tag = "Launch"
                    /\ result.tokens = exec_token(cur_verb, cur_file, cur_is_dir,
                                               cur_args, home_dir)
             /\ ~cur_verb.leave_broot =>
                    /\ call.io = "ok" => result.tag = "RefreshState{clear_cache:true}"
                    /\ call.io # "ok" => result.tag = "DisplayError" /\ app = "running"

\* C9: when the export file cannot be opened or written, or the launchable
\* cannot be built, the dispatch of a verb that does not leave the application
\* returns a DisplayError and the application keeps running.
C9_FailureBecomesDisplayError ==
    (/\ call.op = "to_cmd_result"
     /\ call.io \in {"open_fails", "write_fails", "program_fails"}
     /\ ~cur_verb.leave_broot) =>
        /\ result.tag = "DisplayError"
        /\ app = "running"

====
